---- MODULE Spec2Model ----
(***************************************************************************)
(* ltc-delay: a JACK client that emits Linear Time Code on its output      *)
(* port, decodes the looped-back signal on its input port and reports the  *)
(* average offset between the two (src/ltc-delay.c).                       *)
(*                                                                         *)
(* Two execution contexts are modelled: the real-time callback process()   *)
(* and the analysis thread running main_loop(); handle_signal() and        *)
(* jack_shutdown() run asynchronously to both.  Every access to shared     *)
(* state (active, the ring buffer, the decoder queue, monotonic_cnt, the   *)
(* mutex and the condition variable) is one step.                          *)
(***************************************************************************)
EXTENDS Integers, Sequences, FiniteSets, TLC

(***************************************************************************)
(* Bounds of the model.                                                    *)
(***************************************************************************)
\* Samples per timecode frame; the host's sample rate is fps times this.
SamplesPerFrame == 2
\* Block size the host passes to process().
NSamples == 16
\* The callback is not invoked in state RUNNING once the counter is here.
MaxCnt == 32
\* Frames the decoder delivers in one session of the concurrent model.
MaxFrames == 1
\* Iterations of the analysis loop in the sequential model.
MaxIter == 4
\* Shutdown requests (signals, host shutdowns) delivered in one session.
MaxRequests == 1

(***************************************************************************)
(* Program constants.                                                      *)
(***************************************************************************)
fps == 25
SampleSize == 4
SecondsPerDay == 86400
SilenceSeconds == 3
BytesPerFrame == 10
QueueSize == 12
STARTING == 0
RUNNING == 1
SHUTDOWN == 2

j_samplerate == fps * SamplesPerFrame
n_samples == NSamples
rbsize == j_samplerate * SampleSize
precache == j_samplerate \div 2
notify_dt == j_samplerate \div 2

Min(a, b) == IF a < b THEN a ELSE b

(***************************************************************************)
(* 86400 * j_samplerate / fps in unsigned 32-bit arithmetic: the product   *)
(* is reduced modulo 2^32 before the division.  It is computed on 16-bit   *)
(* halves, so that no intermediate value leaves the range of the checker.  *)
(***************************************************************************)
U32MulDiv(a, b, c) ==
  LET H  == 65536
      al == a % H
      ah == a \div H
      bl == b % H
      bh == b \div H
      ll == al * bl
      hi == (ah * bl + al * bh + ll \div H) % H
      lo == ll % H
  IN  (hi \div c) * H + (((hi % c) * H + lo) \div c)

wraparound == U32MulDiv(SecondsPerDay, j_samplerate, fps)

(***************************************************************************)
(* jack_ringbuffer: a byte buffer whose size is the requested size rounded *)
(* up to a power of two; one byte is kept free.                            *)
(***************************************************************************)
RECURSIVE Pow2Ceil(_, _)
Pow2Ceil(sz, p) == IF p < sz THEN Pow2Ceil(sz, 2 * p) ELSE p

RbSize == Pow2Ceil(rbsize, 2)

\* The readable space without the reduction modulo the size.
ReadSpaceUnmasked(rb) == rb.write_ptr - rb.read_ptr + RbSize

jack_ringbuffer_read_space(rb) ==
  IF rb.write_ptr > rb.read_ptr
  THEN rb.write_ptr - rb.read_ptr
  ELSE (rb.write_ptr - rb.read_ptr + RbSize) % RbSize

jack_ringbuffer_write_space(rb) ==
  IF rb.write_ptr > rb.read_ptr
  THEN ((rb.read_ptr - rb.write_ptr + RbSize) % RbSize) - 1
  ELSE IF rb.write_ptr < rb.read_ptr
       THEN rb.read_ptr - rb.write_ptr - 1
       ELSE RbSize - 1

\* Bytes a read of cnt bytes transfers.
RbReadCount(rb, cnt) == Min(cnt, jack_ringbuffer_read_space(rb))

\* Bytes a write of cnt bytes transfers.
RbWriteCount(rb, cnt) == Min(cnt, jack_ringbuffer_write_space(rb))

jack_ringbuffer_read(rb, cnt) ==
  [rb EXCEPT !.read_ptr = (rb.read_ptr + RbReadCount(rb, cnt)) % RbSize]

jack_ringbuffer_write(rb, cnt) ==
  [rb EXCEPT !.write_ptr = (rb.write_ptr + RbWriteCount(rb, cnt)) % RbSize]

(***************************************************************************)
(* The timecode codec.  A frame carries its time as binary-coded decimal   *)
(* digits; ltc_frame_to_time() assembles hours, minutes, seconds, frame.   *)
(***************************************************************************)
FramesPerDay == SecondsPerDay * fps

\* Samples in 24 hours at the session's sample rate.
DaySamples == SecondsPerDay * j_samplerate

\* The LTC frame (BCD digits) of the n-th frame of the day.
LtcFrame(n) ==
  LET f == n % fps
      s == (n \div fps) % 60
      m == (n \div (fps * 60)) % 60
      h == (n \div (fps * 3600)) % 24
  IN  [frame_units |-> f % 10, frame_tens |-> f \div 10,
       secs_units  |-> s % 10, secs_tens  |-> s \div 10,
       mins_units  |-> m % 10, mins_tens  |-> m \div 10,
       hours_units |-> h % 10, hours_tens |-> h \div 10]

ltc_frame_to_time(ltc) ==
  [hours |-> ltc.hours_units + 10 * ltc.hours_tens,
   mins  |-> ltc.mins_units + 10 * ltc.mins_tens,
   secs  |-> ltc.secs_units + 10 * ltc.secs_tens,
   frame |-> ltc.frame_units + 10 * ltc.frame_tens]

\* The encoder's time advanced by two frames.
IncTimecodeTwice(n) == (n + 2) % FramesPerDay

\* ltc_encoder_inc_timecode(): the encoder's frame number, modulo one day.
ltc_encoder_inc_timecode(n) == (n + 1) % FramesPerDay

\* Samples ltc_encoder_get_buffer() returns for byte b of a frame.
EncLen(b) ==
  ((b + 1) * SamplesPerFrame) \div BytesPerFrame
    - (b * SamplesPerFrame) \div BytesPerFrame


\* First byte at or after b whose buffer is not empty; BytesPerFrame if none.
RECURSIVE NextByte(_)
NextByte(b) ==
  IF b >= BytesPerFrame THEN BytesPerFrame
  ELSE IF EncLen(b) > 0 THEN b ELSE NextByte(b + 1)

\* Start position, in samples of the stream, of the k-th frame ever encoded.
FrameStart(k) == (k * j_samplerate) \div fps

(***************************************************************************)
(* A decoded frame (LTCFrameExt): the BCD time and the value of the sample *)
(* counter at which its audio started.  k and d record, for the            *)
(* properties only, which frame of the transmitted stream it is and the    *)
(* delay with which it came back.                                          *)
(***************************************************************************)
MkFrame(k, d) ==
  [ltc |-> LtcFrame(k % FramesPerDay), off_start |-> FrameStart(k) + d,
   k |-> k, d |-> d]

(***************************************************************************)
(* The correlation of one decoded frame (main_loop, lines 203-208).        *)
(***************************************************************************)
Spos(stime) ==
  LET n == stime.frame + fps * (stime.hours * 3600 + stime.mins * 60 + stime.secs)
  IN  (n * j_samplerate) \div fps

\* The % of C on a signed dividend: the result has the sign of the dividend.
CRem(a, b) == IF a >= 0 THEN a % b ELSE -((-a) % b)

Delta(frame) ==
  CRem(frame.off_start, wraparound) - Spos(ltc_frame_to_time(frame.ltc))

Accepts(delta) == delta > 0 /\ delta < j_samplerate

(***************************************************************************)
(* The delay estimator (main_loop, lines 209-211 and 229-240).             *)
(***************************************************************************)
\* The sum assigned where it is to be added to.
EstimatorAssign(est, delta, t) ==
  [avg_delta |-> delta, avg_count |-> est.avg_count + 1, last_signal |-> t]

EstimatorAdd(est, delta, t) ==
  [avg_delta |-> est.avg_delta + delta, avg_count |-> est.avg_count + 1,
   last_signal |-> t]

\* The silence window counted in frames' worth of samples, not in seconds.
SilenceElapsedFrames(t, last) == t - last > SilenceSeconds * j_samplerate * fps

SilenceElapsed(t, last) == t - last > SilenceSeconds * j_samplerate

EstimatorReset(est) == [est EXCEPT !.avg_delta = 0, !.avg_count = 0]

NotifyDue(t, last_notify) == t > last_notify + notify_dt

\* printf ("%.0f", s / c): the quotient rounded to the nearest integer,
\* a tie to the even one.
Printf0(s, c) ==
  LET q == s \div c
      r == s % c
  IN  IF 2 * r > c \/ (2 * r = c /\ q % 2 = 1) THEN q + 1 ELSE q

\* Lines 235-239: "Delay <value>" or " -- no recent signal".
ReportLine(est) ==
  IF est.avg_count > 0
  THEN [numeric |-> TRUE, value |-> Printf0(est.avg_delta, est.avg_count)]
  ELSE [numeric |-> FALSE, value |-> 0]

(***************************************************************************)
(* Mutex and condition variable.                                           *)
(***************************************************************************)
\* pthread_mutex_lock() in the place of the trylock: waits for the owner.
BlockingLock(owner) == IF owner = "free" THEN "acquired" ELSE "blocked"

\* pthread_mutex_trylock(): never waits.
TryLock(owner) == IF owner = "free" THEN "acquired" ELSE "busy"

\* pthread_cond_signal(): wakes the thread if it is blocked in the wait.
CondSignal(pc) == IF pc = "waiting" THEN "woken" ELSE pc

\* The test of line 57 with the starting state let through.
OnlyShutdown(a) == a = SHUTDOWN

\* The test of line 57: the state is not RUNNING.
NotRunning(a) == a # RUNNING

\* The counter left as it is after a block has been read.
CounterHold(cnt, n) == cnt

\* The counter counting blocks where it is to count samples.
CounterAdvanceOne(cnt, n) == cnt + 1

\* Line 66: monotonic_cnt += n_samples.
CounterAdvance(cnt, n) == cnt + n

\* The test of line 64 without the block size: anything is readable.
HasAnything(space, n) == space > 0

\* The test of line 64: more than one block of bytes is readable.
HasBlock(space, n) == space > SampleSize * n

VARIABLES
  active,           \* 0: starting, 1: running, 2: shutdown
  mpc,              \* position of the analysis thread in main_loop
  cpc,              \* position of the callback in process
  sd_pc,            \* position of handle_signal or jack_shutdown
  requests,         \* shutdown requests delivered
  lock,             \* owner of ltc_thread_lock
  j_rb,             \* the ring buffer's cursors
  rb_written,       \* bytes ever written to the ring buffer
  rb_consumed,      \* bytes ever read from the ring buffer
  overflow,         \* "ringbuffer overflow" has been printed
  monotonic_cnt,
  enc,              \* encoder: frame number, byte and sample being written
  queue,            \* the decoder's queue of frames
  frames_decoded,   \* frames the decoder has delivered
  loc,              \* main_loop's frames_in_queue, i, now, last_notify_time
  est,              \* avg_delta, avg_count, last_signal
  accepted,         \* deltas added to the estimator since its last reset
  frame_info,       \* off_start, spos, delta of the frame drained last
  report,           \* what the last pass of the loop printed
  out,              \* bytes of the output block written from the ring / zeroed
  rs,               \* the callback's reading of the readable space
  cnt_entry,        \* monotonic_cnt when the invocation in progress started
  proc,             \* main(): its position, j_client, the objects it owns
  iter              \* passes of the analysis loop (sequential model)

vars == <<active, mpc, cpc, sd_pc, requests, lock, j_rb, rb_written, rb_consumed,
          overflow, monotonic_cnt, enc, queue, frames_decoded, loc, est,
          accepted, frame_info, report, out, rs, cnt_entry, proc, iter>>

NoFrame == [present |-> FALSE]
NoReport == [tick |-> FALSE, line |-> [numeric |-> FALSE, value |-> 0],
             count_before |-> 0]
NoOut == [ring |-> 0, zero |-> 0]

\* main() inside main_loop (line 364): the client is open and active, the
\* ring buffer, the encoder and the decoder exist, SIGINT is handled.
ProcRunning ==
  [pc |-> "main_loop", fault |-> "none", term |-> 0, j_client |-> "open",
   rb |-> "alloc", encoder |-> "alloc", decoder |-> "alloc", sigint |-> TRUE,
   diag |-> FALSE, status |-> "running"]

Init ==
  /\ active = STARTING
  /\ mpc = "lock"
  /\ cpc = "idle"
  /\ sd_pc = "idle"
  /\ requests = 0
  /\ lock = "free"
  /\ j_rb = [write_ptr |-> 0, read_ptr |-> 0]
  /\ rb_written = 0
  /\ rb_consumed = 0
  /\ overflow = FALSE
  /\ monotonic_cnt = 0
  /\ enc = [tc |-> 0, byteCnt |-> 0, i |-> 0]
  /\ queue = <<>>
  /\ frames_decoded = 0
  /\ loc = [frames_in_queue |-> 0, i |-> 0, now |-> 0, last_notify_time |-> 0]
  /\ est = [avg_delta |-> 0, avg_count |-> 0, last_signal |-> 0]
  /\ accepted = <<>>
  /\ frame_info = NoFrame
  /\ report = NoReport
  /\ out = NoOut
  /\ rs = 0
  /\ cnt_entry = 0
  /\ proc = ProcRunning
  /\ iter = 0


BlockBytes == SampleSize * n_samples

mainVars == <<mpc, enc, loc, est, accepted, frame_info, report, iter>>
ringVars == <<j_rb, rb_written, rb_consumed, overflow>>
hdlVars == <<sd_pc, requests, proc>>

(***************************************************************************)
(* The real-time callback, process().                                      *)
(***************************************************************************)
\* The host invokes the callback (lines 54-55: the port buffers).
CbInvoke ==
  /\ cpc = "idle"
  /\ monotonic_cnt + n_samples <= MaxCnt \/ active # RUNNING
  /\ cpc' = "active"
  /\ out' = NoOut
  /\ cnt_entry' = monotonic_cnt
  /\ UNCHANGED <<active, lock, monotonic_cnt, queue, frames_decoded, rs>>
  /\ UNCHANGED <<mainVars, ringVars, hdlVars>>

\* Lines 57-60.
CbCheckActive ==
  /\ cpc = "active"
  /\ IF NotRunning(active)
     THEN /\ out' = [out EXCEPT !.zero = BlockBytes]
          /\ cpc' = "idle"
     ELSE /\ out' = out
          /\ cpc' = "decwrite"
  /\ UNCHANGED <<active, lock, monotonic_cnt, queue, frames_decoded, rs>>
  /\ UNCHANGED cnt_entry
  /\ UNCHANGED <<mainVars, ringVars, hdlVars>>

\* Frames the decoder can complete in the block that starts at posinfo: none,
\* or the frame of the transmitted stream that returns with delay d.
InputFrames(posinfo, delays) ==
  {MkFrame((posinfo - d) \div SamplesPerFrame, d) :
     d \in {x \in delays : posinfo - x >= 0}}

ConcurrentDelays == {0, n_samples}

\* Line 62: ltc_decoder_write_float (decoder, in, n_samples, monotonic_cnt).
CbDecoderWrite ==
  /\ cpc = "decwrite"
  /\ \/ UNCHANGED <<queue, frames_decoded>>
     \/ /\ frames_decoded < MaxFrames
        /\ Len(queue) < QueueSize - 1
        /\ \E f \in InputFrames(monotonic_cnt, ConcurrentDelays) :
             queue' = Append(queue, f)
        /\ frames_decoded' = frames_decoded + 1
  /\ cpc' = "rbcheck"
  /\ UNCHANGED <<active, lock, monotonic_cnt, out, rs, cnt_entry>>
  /\ UNCHANGED <<mainVars, ringVars, hdlVars>>

\* Line 64, and the else branch of lines 67-69.
CbRbCheck ==
  /\ cpc = "rbcheck"
  /\ rs' = jack_ringbuffer_read_space(j_rb)
  /\ IF HasBlock(rs', n_samples)
     THEN /\ out' = out
          /\ cpc' = "rbread"
     ELSE /\ out' = [out EXCEPT !.zero = BlockBytes]
          /\ cpc' = "trylock"
  /\ UNCHANGED <<active, lock, monotonic_cnt, queue, frames_decoded, cnt_entry>>
  /\ UNCHANGED <<mainVars, ringVars, hdlVars>>

\* Line 65.
CbRbRead ==
  /\ cpc = "rbread"
  /\ j_rb' = jack_ringbuffer_read(j_rb, BlockBytes)
  /\ rb_consumed' = rb_consumed + RbReadCount(j_rb, BlockBytes)
  /\ out' = [out EXCEPT !.ring = RbReadCount(j_rb, BlockBytes)]
  /\ cpc' = "cntinc"
  /\ UNCHANGED <<active, lock, monotonic_cnt, queue, frames_decoded, rs, cnt_entry>>
  /\ UNCHANGED <<mainVars, rb_written, overflow, hdlVars>>

\* Line 66.
CbCntInc ==
  /\ cpc = "cntinc"
  /\ monotonic_cnt' = CounterAdvance(monotonic_cnt, n_samples)
  /\ cpc' = "trylock"
  /\ UNCHANGED <<active, lock, queue, frames_decoded, out, rs, cnt_entry>>
  /\ UNCHANGED <<mainVars, ringVars, hdlVars>>

\* Line 71: the lock is taken if it is free; the callback returns if not.
CbTrylock ==
  /\ cpc = "trylock"
  /\ TryLock(lock) # "blocked"
  /\ IF TryLock(lock) = "acquired"
     THEN /\ lock' = "cb"
          /\ cpc' = "signal"
     ELSE /\ lock' = lock
          /\ cpc' = "idle"
  /\ UNCHANGED <<active, monotonic_cnt, queue, frames_decoded, out, rs, cnt_entry>>
  /\ UNCHANGED <<mainVars, ringVars, hdlVars>>

\* Line 72.
CbSignal ==
  /\ cpc = "signal"
  /\ mpc' = CondSignal(mpc)
  /\ cpc' = "unlock"
  /\ UNCHANGED <<active, lock, monotonic_cnt, queue, frames_decoded, out, rs>>
  /\ UNCHANGED <<enc, loc, est, accepted, frame_info, report, iter, cnt_entry>>
  /\ UNCHANGED <<ringVars, hdlVars>>

\* Lines 73-75.
CbUnlock ==
  /\ cpc = "unlock"
  /\ lock' = "free"
  /\ cpc' = "idle"
  /\ UNCHANGED <<active, monotonic_cnt, queue, frames_decoded, out, rs, cnt_entry>>
  /\ UNCHANGED <<mainVars, ringVars, hdlVars>>

Callback ==
  \/ CbInvoke \/ CbCheckActive \/ CbDecoderWrite \/ CbRbCheck \/ CbRbRead
  \/ CbCntInc \/ CbTrylock \/ CbSignal \/ CbUnlock

(***************************************************************************)
(* handle_signal() and jack_shutdown(): set the state, signal data_ready.  *)
(* sd_pc is the position of the request in progress; at most MaxRequests   *)
(* requests arrive in a session, one after the other.                      *)
(***************************************************************************)
\* Line 256.
HandleSignalSet ==
  /\ sd_pc = "idle"
  /\ proc.sigint
  /\ requests < MaxRequests
  /\ active' = SHUTDOWN
  /\ sd_pc' = "handle_signal"
  /\ requests' = requests + 1
  /\ UNCHANGED <<cpc, lock, monotonic_cnt, queue, frames_decoded, out, rs>>
  /\ UNCHANGED <<mainVars, ringVars, cnt_entry, proc>>

\* Line 257.
HandleSignalNotify ==
  /\ sd_pc = "handle_signal"
  /\ mpc' = CondSignal(mpc)
  /\ sd_pc' = "idle"
  /\ UNCHANGED <<active, cpc, lock, monotonic_cnt, queue, frames_decoded, out, rs>>
  /\ UNCHANGED <<enc, loc, est, accepted, frame_info, report, iter, requests>>
  /\ UNCHANGED <<ringVars, cnt_entry, proc>>

\* Lines 107-108.
JackShutdownSet ==
  /\ sd_pc = "idle"
  /\ requests < MaxRequests
  /\ active' = SHUTDOWN
  /\ sd_pc' = "jack_shutdown"
  /\ requests' = requests + 1
  /\ UNCHANGED <<cpc, lock, monotonic_cnt, queue, frames_decoded, out, rs>>
  /\ UNCHANGED <<mainVars, ringVars, cnt_entry, proc>>

\* Line 109.
JackShutdownNotify ==
  /\ sd_pc = "jack_shutdown"
  /\ mpc' = CondSignal(mpc)
  /\ sd_pc' = "idle"
  /\ UNCHANGED <<active, cpc, lock, monotonic_cnt, queue, frames_decoded, out, rs>>
  /\ UNCHANGED <<enc, loc, est, accepted, frame_info, report, iter, requests>>
  /\ UNCHANGED <<ringVars, cnt_entry, proc>>

(***************************************************************************)
(* The analysis thread, main_loop().                                       *)
(***************************************************************************)
cbVars == <<cpc, out, rs, cnt_entry>>

\* Line 161: pthread_mutex_lock waits until the lock is free.
MainLock ==
  /\ mpc = "lock"
  /\ lock = "free"
  /\ lock' = "main"
  /\ mpc' = "set_active"
  /\ UNCHANGED <<active, monotonic_cnt, queue, frames_decoded>>
  /\ UNCHANGED <<enc, loc, est, accepted, frame_info, report, iter>>
  /\ UNCHANGED <<cbVars, ringVars, hdlVars>>

\* Lines 162-170.
MainSetActive ==
  /\ mpc = "set_active"
  /\ active' = RUNNING
  /\ est' = [avg_delta |-> 0, avg_count |-> 0, last_signal |-> 0]
  /\ loc' = [loc EXCEPT !.last_notify_time = 0]
  /\ mpc' = "while"
  /\ UNCHANGED <<lock, monotonic_cnt, queue, frames_decoded>>
  /\ UNCHANGED <<enc, accepted, frame_info, report, iter>>
  /\ UNCHANGED <<cbVars, ringVars, hdlVars>>

\* Line 172.
MainWhile ==
  /\ mpc = "while"
  /\ mpc' = IF active = RUNNING THEN "fill" ELSE "exit"
  /\ UNCHANGED <<active, lock, monotonic_cnt, queue, frames_decoded>>
  /\ UNCHANGED <<enc, loc, est, accepted, frame_info, report, iter>>
  /\ UNCHANGED <<cbVars, ringVars, hdlVars>>

\* The test of line 173 with the comparison turned round.
NeedsFillReversed(space) == space > precache * SampleSize

\* The test of line 173 made against the size of the buffer.
NeedsFillCapacity(space) == space < RbSize

\* The test of line 173.
NeedsFill(space) == space < precache * SampleSize

\* Line 173; when a frame is due, lines 175-178 up to its first sample.
MainFill ==
  /\ mpc = "fill"
  /\ IF NeedsFill(jack_ringbuffer_read_space(j_rb))
     THEN /\ mpc' = "write"
          /\ enc' = [enc EXCEPT !.byteCnt = NextByte(0), !.i = 0]
     ELSE /\ mpc' = "qlen"
          /\ enc' = enc
  /\ UNCHANGED <<active, lock, monotonic_cnt, queue, frames_decoded>>
  /\ UNCHANGED <<loc, est, accepted, frame_info, report, iter>>
  /\ UNCHANGED <<cbVars, ringVars, hdlVars>>

\* Line 184: one sample is written; then the loops of lines 175-188 advance
\* to the next sample, and line 189 follows the last sample of the frame.
MainWrite ==
  /\ mpc = "write"
  /\ j_rb' = jack_ringbuffer_write(j_rb, SampleSize)
  /\ rb_written' = rb_written + RbWriteCount(j_rb, SampleSize)
  /\ overflow' = (overflow \/ RbWriteCount(j_rb, SampleSize) # SampleSize)
  /\ LET nb == NextByte(enc.byteCnt + 1)
     IN  IF enc.i + 1 < EncLen(enc.byteCnt)
         THEN /\ enc' = [enc EXCEPT !.i = enc.i + 1]
              /\ mpc' = "write"
         ELSE IF nb < BytesPerFrame
         THEN /\ enc' = [enc EXCEPT !.byteCnt = nb, !.i = 0]
              /\ mpc' = "write"
         ELSE /\ enc' = [tc |-> ltc_encoder_inc_timecode(enc.tc),
                         byteCnt |-> 0, i |-> 0]
              /\ mpc' = "fill"
  /\ UNCHANGED <<active, lock, monotonic_cnt, queue, frames_decoded>>
  /\ UNCHANGED <<loc, est, accepted, frame_info, report, iter>>
  /\ UNCHANGED <<cbVars, rb_consumed, hdlVars>>

\* Line 193.
MainQueueLength ==
  /\ mpc = "qlen"
  /\ loc' = [loc EXCEPT !.frames_in_queue = Len(queue)]
  /\ mpc' = "now"
  /\ UNCHANGED <<active, lock, monotonic_cnt, queue, frames_decoded>>
  /\ UNCHANGED <<enc, est, accepted, frame_info, report, iter>>
  /\ UNCHANGED <<cbVars, ringVars, hdlVars>>

\* Line 195, and the first test of the loop of line 197.
MainNow ==
  /\ mpc = "now"
  /\ loc' = [loc EXCEPT !.now = monotonic_cnt, !.i = 0]
  /\ mpc' = IF loc.frames_in_queue > 0 THEN "drain" ELSE "report"
  /\ frame_info' = NoFrame
  /\ report' = NoReport
  /\ UNCHANGED <<active, lock, monotonic_cnt, queue, frames_decoded>>
  /\ UNCHANGED <<enc, est, accepted, iter>>
  /\ UNCHANGED <<cbVars, ringVars, hdlVars>>

\* Lines 198-212 and the loop test of line 197: one frame is read from the
\* decoder, correlated, and added to the estimator if it is accepted.
MainDrainFrame ==
  /\ mpc = "drain"
  /\ LET frame == Head(queue)
         delta == Delta(frame)
     IN  /\ queue' = Tail(queue)
         /\ frame_info' = [present |-> TRUE, off_start |-> frame.off_start,
                           spos |-> Spos(ltc_frame_to_time(frame.ltc)),
                           delta |-> delta, k |-> frame.k, d |-> frame.d,
                           before |-> est]
         /\ IF Accepts(delta)
            THEN /\ est' = EstimatorAdd(est, delta, loc.now)
                 /\ accepted' = Append(accepted, delta)
            ELSE /\ est' = est
                 /\ accepted' = accepted
  /\ loc' = [loc EXCEPT !.i = loc.i + 1]
  /\ mpc' = IF loc.i + 1 < loc.frames_in_queue THEN "drain" ELSE "report"
  /\ UNCHANGED <<active, lock, monotonic_cnt, frames_decoded>>
  /\ UNCHANGED <<enc, report, iter>>
  /\ UNCHANGED <<cbVars, ringVars, hdlVars>>

\* Lines 229-240.
MainReport ==
  /\ mpc = "report"
  /\ IF NotifyDue(loc.now, loc.last_notify_time)
     THEN LET e == IF SilenceElapsed(loc.now, est.last_signal)
                   THEN EstimatorReset(est) ELSE est
          IN  /\ loc' = [loc EXCEPT !.last_notify_time = loc.now]
              /\ est' = e
              /\ accepted' = IF SilenceElapsed(loc.now, est.last_signal)
                             THEN <<>> ELSE accepted
              /\ report' = [tick |-> TRUE, line |-> ReportLine(e),
                            count_before |-> est.avg_count]
     ELSE /\ report' = NoReport
          /\ UNCHANGED <<loc, est, accepted>>
  /\ mpc' = "check"
  /\ UNCHANGED <<active, lock, monotonic_cnt, queue, frames_decoded>>
  /\ UNCHANGED <<enc, frame_info, iter>>
  /\ UNCHANGED <<cbVars, ringVars, hdlVars>>

\* Lines 242-244.
MainCheck ==
  /\ mpc = "check"
  /\ mpc' = IF active # RUNNING THEN "exit" ELSE "wait"
  /\ UNCHANGED <<active, lock, monotonic_cnt, queue, frames_decoded>>
  /\ UNCHANGED <<enc, loc, est, accepted, frame_info, report, iter>>
  /\ UNCHANGED <<cbVars, ringVars, hdlVars>>

\* Line 246: pthread_cond_wait releases the lock and blocks, atomically.
MainWait ==
  /\ mpc = "wait"
  /\ lock' = "free"
  /\ mpc' = "waiting"
  /\ UNCHANGED <<active, monotonic_cnt, queue, frames_decoded>>
  /\ UNCHANGED <<enc, loc, est, accepted, frame_info, report, iter>>
  /\ UNCHANGED <<cbVars, ringVars, hdlVars>>

\* Line 246: once signalled, pthread_cond_wait takes the lock again.
MainWake ==
  /\ mpc = "woken"
  /\ lock = "free"
  /\ lock' = "main"
  /\ mpc' = "while"
  /\ UNCHANGED <<active, monotonic_cnt, queue, frames_decoded>>
  /\ UNCHANGED <<enc, loc, est, accepted, frame_info, report, iter>>
  /\ UNCHANGED <<cbVars, ringVars, hdlVars>>

\* Lines 249-251.
MainExit ==
  /\ mpc = "exit"
  /\ lock' = "free"
  /\ mpc' = "done"
  /\ UNCHANGED <<active, monotonic_cnt, queue, frames_decoded>>
  /\ UNCHANGED <<enc, loc, est, accepted, frame_info, report, iter>>
  /\ UNCHANGED <<cbVars, ringVars, hdlVars>>

Analysis ==
  \/ MainLock \/ MainSetActive \/ MainWhile \/ MainFill \/ MainWrite
  \/ MainQueueLength \/ MainNow \/ MainDrainFrame \/ MainReport
  \/ MainCheck \/ MainWait \/ MainWake \/ MainExit

Handlers ==
  \/ HandleSignalSet \/ HandleSignalNotify
  \/ JackShutdownSet \/ JackShutdownNotify

Next == Callback \/ Analysis \/ Handlers

Spec == Init /\ [][Next]_vars


(***************************************************************************)
(* The analysis loop on its own.  One round of the environment stands for  *)
(* what happens between two passes of lines 193-240: the thread waits, the *)
(* callback runs some number of times (reading blocks, feeding the         *)
(* decoder, signalling), the thread wakes and refills the ring buffer.     *)
(* The counter can advance by any number of blocks in a round, since the   *)
(* callback keeps reading while the thread is in the fill loop.            *)
(***************************************************************************)
RoundDownN(x) == (x \div n_samples) * n_samples
RoundUpN(x) == ((x + n_samples - 1) \div n_samples) * n_samples

\* Blocks' worth of samples the counter advances in one round.
Advances ==
  {n_samples, RoundUpN(SilenceSeconds * j_samplerate + 1),
   RoundDownN(wraparound) - n_samples, RoundDownN(DaySamples) - n_samples}

\* Delays with which a frame of the transmitted stream can come back.
SequentialDelays == {-1, 0, 1, n_samples, j_samplerate - 1, j_samplerate}

\* Frames ever written once the ring buffer is refilled with cnt samples read.
RECURSIVE FramesFilled(_, _)
FramesFilled(k, cnt) ==
  IF NeedsFill((FrameStart(k) - cnt) * SampleSize)
  THEN FramesFilled(k + 1, cnt) ELSE k

EnvRound ==
  /\ mpc = "wait"
  /\ iter < MaxIter
  /\ iter' = iter + 1
  /\ \E adv \in Advances :
       LET cnt == monotonic_cnt + adv
           k   == FramesFilled(cnt \div SamplesPerFrame, cnt)
       IN  /\ monotonic_cnt' = cnt
           /\ rb_consumed' = cnt * SampleSize
           /\ rb_written' = FrameStart(k) * SampleSize
           /\ j_rb' = [write_ptr |-> (FrameStart(k) * SampleSize) % RbSize,
                       read_ptr |-> (cnt * SampleSize) % RbSize]
           /\ enc' = [tc |-> k % FramesPerDay, byteCnt |-> 0, i |-> 0]
           /\ \/ queue' = queue
              \/ \E f \in InputFrames(cnt - n_samples, SequentialDelays) :
                   queue' = Append(queue, f)
  /\ mpc' = "qlen"
  /\ UNCHANGED <<active, lock, frames_decoded, overflow, cbVars, hdlVars>>
  /\ UNCHANGED <<loc, est, accepted, frame_info, report>>

NextLoop ==
  \/ MainLock \/ MainSetActive \/ MainWhile \/ MainFill \/ MainWrite
  \/ MainQueueLength \/ MainNow \/ MainDrainFrame \/ MainReport
  \/ MainCheck \/ EnvRound

SpecLoop == Init /\ [][NextLoop]_vars


(***************************************************************************)
(* Scheduling: both threads keep running, the host keeps invoking the      *)
(* callback, and a handler that has started runs to its end.               *)
(***************************************************************************)
FairSpec ==
  /\ Spec
  /\ WF_vars(Analysis)
  /\ WF_vars(Callback)
  /\ WF_vars(HandleSignalNotify)
  /\ WF_vars(JackShutdownNotify)


\* The analysis thread, blocked on the mutex inside pthread_cond_wait, gets
\* the lock once the callback has released it: the callback's next trylock
\* is a whole period of the host away.
FairLockSpec == FairSpec /\ SF_vars(MainWake)


(***************************************************************************)
(* main(), init_jack() and cleanup(): the life of the process.  One        *)
(* resource can fail in a session (fault); a call that gets a missing      *)
(* object has undefined behaviour: the process is killed there, or it      *)
(* carries on.                                                             *)
(***************************************************************************)
Faults ==
  {"none", "open", "out_port", "in_port", "rb", "activate", "encoder",
   "decoder"}

\* Everything but the positions of the threads and of main().
dataVars ==
  <<active, lock, monotonic_cnt, queue, frames_decoded, enc, loc, est,
    accepted, frame_info, report, iter, j_rb, rb_written, rb_consumed,
    overflow, requests, out, rs, cnt_entry>>

\* The state at the start of main(): nothing is acquired, no thread runs.
InitMain ==
  /\ active = STARTING
  /\ mpc = "off"
  /\ cpc = "off"
  /\ sd_pc = "off"
  /\ requests = 0
  /\ lock = "free"
  /\ j_rb = [write_ptr |-> 0, read_ptr |-> 0]
  /\ rb_written = 0
  /\ rb_consumed = 0
  /\ overflow = FALSE
  /\ monotonic_cnt = 0
  /\ enc = [tc |-> 0, byteCnt |-> 0, i |-> 0]
  /\ queue = <<>>
  /\ frames_decoded = 0
  /\ loc = [frames_in_queue |-> 0, i |-> 0, now |-> 0, last_notify_time |-> 0]
  /\ est = [avg_delta |-> 0, avg_count |-> 0, last_signal |-> 0]
  /\ accepted = <<>>
  /\ frame_info = NoFrame
  /\ report = NoReport
  /\ out = NoOut
  /\ rs = 0
  /\ cnt_entry = 0
  /\ iter = 0
  /\ proc \in {[pc |-> "jack_client_open", fault |-> f, term |-> 0,
                 j_client |-> "null", rb |-> "null", encoder |-> "null",
                 decoder |-> "null", sigint |-> FALSE, diag |-> FALSE,
                 status |-> "running"] : f \in Faults}

\* cleanup (1) after a diagnostic (lines 132-133, 137-138, 147-148).
FatalFault(p) == [p EXCEPT !.diag = TRUE, !.term = 1, !.pc = "cleanup"]

\* Lines 116-124.
JackClientOpen ==
  /\ proc.pc = "jack_client_open"
  /\ proc' = IF proc.fault = "open"
             THEN [proc EXCEPT !.diag = TRUE, !.pc = "exited", !.status = "1"]
             ELSE [proc EXCEPT !.j_client = "open", !.pc = "set_callbacks"]
  /\ UNCHANGED <<mpc, cpc, sd_pc, dataVars>>

\* Lines 126-129: from here on the host can announce its shutdown.
JackSetCallbacks ==
  /\ proc.pc = "set_callbacks"
  /\ proc' = [proc EXCEPT !.pc = "register_out"]
  /\ sd_pc' = "idle"
  /\ UNCHANGED <<mpc, cpc, dataVars>>

\* Lines 131-134.
JackRegisterOut ==
  /\ proc.pc = "register_out"
  /\ proc' = IF proc.fault = "out_port"
             THEN FatalFault(proc)
             ELSE [proc EXCEPT !.pc = "register_in"]
  /\ UNCHANGED <<mpc, cpc, sd_pc, dataVars>>

\* Lines 136-139.
JackRegisterIn ==
  /\ proc.pc = "register_in"
  /\ proc' = IF proc.fault = "in_port"
             THEN FatalFault(proc)
             ELSE [proc EXCEPT !.pc = "ringbuffer_create"]
  /\ UNCHANGED <<mpc, cpc, sd_pc, dataVars>>

\* Lines 141-142: the result is stored, whatever it is.
RingbufferCreate(p) ==
  [p EXCEPT !.rb = IF p.fault = "rb" THEN "null" ELSE "alloc",
            !.pc = "ringbuffer_init"]

JackRingbufferCreate ==
  /\ proc.pc = "ringbuffer_create"
  /\ proc' = RingbufferCreate(proc)
  /\ UNCHANGED <<mpc, cpc, sd_pc, dataVars>>

\* Lines 143-144: jack_ringbuffer_mlock (j_rb) and memset (j_rb->buf, ...).
JackRingbufferInit ==
  /\ proc.pc = "ringbuffer_init"
  /\ proc' = [proc EXCEPT !.pc = "jack_activate"]
  /\ UNCHANGED <<mpc, cpc, sd_pc, dataVars>>

\* Lines 146-149: once the client is active the host invokes process().
JackActivate ==
  /\ proc.pc = "jack_activate"
  /\ IF proc.fault = "activate"
     THEN /\ proc' = FatalFault(proc)
          /\ cpc' = cpc
     ELSE /\ proc' = [proc EXCEPT !.pc = "create_codec"]
          /\ cpc' = "idle"
  /\ UNCHANGED <<mpc, sd_pc, dataVars>>

\* Lines 357-358: the results are stored, whatever they are.
CreateCodec ==
  /\ proc.pc = "create_codec"
  /\ proc' = [proc EXCEPT
                !.encoder = IF proc.fault = "encoder" THEN "null" ELSE "alloc",
                !.decoder = IF proc.fault = "decoder" THEN "null" ELSE "alloc",
                !.pc = "signal"]
  /\ UNCHANGED <<mpc, cpc, sd_pc, dataVars>>

\* Line 361.
InstallSignal ==
  /\ proc.pc = "signal"
  /\ proc' = [proc EXCEPT !.sigint = TRUE, !.pc = "main_loop_call"]
  /\ UNCHANGED <<mpc, cpc, sd_pc, dataVars>>

\* Line 364, and lines 156-159 of main_loop.
MainLoopCall ==
  /\ proc.pc = "main_loop_call"
  /\ proc' = [proc EXCEPT !.pc = "main_loop"]
  /\ mpc' = "lock"
  /\ UNCHANGED <<cpc, sd_pc, dataVars>>

\* main_loop has returned; line 365 calls cleanup (0).
MainLoopReturn ==
  /\ proc.pc = "main_loop"
  /\ mpc = "done"
  /\ proc' = [proc EXCEPT !.term = 0, !.pc = "cleanup"]
  /\ mpc' = "off"
  /\ UNCHANGED <<cpc, sd_pc, dataVars>>

\* Lines 81-84: jack_deactivate returns once no invocation of process() is
\* in progress, and none starts after it.
CleanupClient ==
  /\ proc.pc = "cleanup"
  /\ cpc \in {"idle", "off"}
  /\ cpc' = "off"
  /\ proc' = [proc EXCEPT
                !.j_client = IF proc.j_client = "open" THEN "closed"
                             ELSE proc.j_client,
                !.pc = "cleanup_free"]
  /\ UNCHANGED <<mpc, sd_pc, dataVars>>

Release(obj) == IF obj = "alloc" THEN "freed" ELSE obj

\* Lines 86-91.
CleanupFree ==
  /\ proc.pc = "cleanup_free"
  /\ proc' = [proc EXCEPT !.rb = Release(proc.rb),
                          !.encoder = Release(proc.encoder),
                          !.decoder = Release(proc.decoder),
                          !.pc = "cleanup_end"]
  /\ UNCHANGED <<mpc, cpc, sd_pc, dataVars>>

\* Lines 93-101.
CleanupEnd ==
  /\ proc.pc = "cleanup_end"
  /\ IF proc.term # 0
     THEN /\ proc' = [proc EXCEPT !.pc = "exited", !.status = "1"]
          /\ sd_pc' = "off"
     ELSE /\ proc' = [proc EXCEPT !.j_client = "null", !.rb = "null",
                                  !.encoder = "null", !.decoder = "null",
                                  !.pc = "return"]
          /\ sd_pc' = sd_pc
  /\ UNCHANGED <<mpc, cpc, dataVars>>

\* Lines 366-367.
MainReturn ==
  /\ proc.pc = "return"
  /\ proc' = [proc EXCEPT !.pc = "exited", !.status = "0"]
  /\ sd_pc' = "off"
  /\ UNCHANGED <<mpc, cpc, dataVars>>

\* A thread is about to pass a missing object to a call that uses it.
UsesMissing ==
  \/ proc.pc = "ringbuffer_init" /\ proc.rb # "alloc"
  \/ proc.pc = "main_loop_call" /\ proc.encoder # "alloc"
  \/ cpc = "decwrite" /\ proc.decoder # "alloc"
  \/ cpc \in {"rbcheck", "rbread"} /\ proc.rb # "alloc"
  \/ mpc \in {"fill", "write"} /\ proc.rb # "alloc"
  \/ mpc = "write" /\ proc.encoder # "alloc"
  \/ mpc \in {"qlen", "drain"} /\ proc.decoder # "alloc"

\* The use of a missing object kills the process (the other outcome is the
\* step of the thread itself, which carries on).
Crash ==
  /\ UsesMissing
  /\ proc' = [proc EXCEPT !.pc = "crashed", !.status = "signal"]
  /\ mpc' = "off"
  /\ cpc' = "off"
  /\ sd_pc' = "off"
  /\ UNCHANGED dataVars

Lifecycle ==
  \/ JackClientOpen \/ JackSetCallbacks \/ JackRegisterOut \/ JackRegisterIn
  \/ JackRingbufferCreate \/ JackRingbufferInit \/ JackActivate
  \/ CreateCodec \/ InstallSignal \/ MainLoopCall \/ MainLoopReturn
  \/ CleanupClient \/ CleanupFree \/ CleanupEnd \/ MainReturn \/ Crash

NextMain == Lifecycle \/ Callback \/ Analysis \/ Handlers

SpecMain == InitMain /\ [][NextMain]_vars


(***************************************************************************)
(* Properties.                                                             *)
(***************************************************************************)

\* C1: once handle_signal or jack_shutdown has set the state to SHUTDOWN
\* while the analysis thread is inside its loop (filling, draining, between
\* the test of line 242 and the wait, or waiting), the thread eventually
\* releases the lock and returns from main_loop.
C1_ShutdownLiveness ==
  [](active = SHUTDOWN /\ mpc \notin {"lock", "set_active"}
       => <>(mpc = "done" /\ lock # "main"))

\* C2: once active has been set to SHUTDOWN it never takes another value.
C2_ShutdownTerminal == [][active = SHUTDOWN => active' = SHUTDOWN]_vars

\* C3: an invocation of process() that has started can always take its next
\* step, whatever the analysis thread is doing; the callback holds the lock
\* only between a successful trylock and its unlock; and a failed trylock
\* returns at once, leaving the lock and the analysis thread as they are.
C3_CallbackNeverBlocks ==
  /\ [](cpc # "idle" => ENABLED Callback)
  /\ [](lock = "cb" => cpc \in {"signal", "unlock"})
  /\ [][cpc = "trylock" /\ lock # "free" /\ cpc' # cpc
          => (cpc' = "idle" /\ lock' = lock /\ mpc' = mpc)]_vars

\* C3 witness: the callback reaches the trylock while the analysis thread
\* holds the lock in the encode-ahead loop.
C3_Witness == cpc = "trylock" /\ lock = "main" /\ mpc = "write"

\* C9: past the test of line 64 the output block of a RUNNING invocation is
\* n_samples samples from the ring buffer or n_samples zeros, never
\* anything else; when fewer than one block is readable at that test the
\* block is zeros and the read cursor stays where it is until the return.
C9_BlockIntegrity ==
  /\ [](cpc \in {"trylock", "signal", "unlock"}
          => \/ out = [ring |-> BlockBytes, zero |-> 0]
             \/ out = [ring |-> 0, zero |-> BlockBytes])
  /\ [](cpc = "cntinc" => out = [ring |-> BlockBytes, zero |-> 0])
  /\ [][cpc = "rbcheck" /\ cpc' # cpc /\ rb_written - rb_consumed < BlockBytes
          => /\ out' = [ring |-> 0, zero |-> BlockBytes]
             /\ cpc' = "trylock"
             /\ j_rb'.read_ptr = j_rb.read_ptr
             /\ rb_consumed' = rb_consumed]_vars
  /\ [][(cpc \in {"trylock", "signal", "unlock"})
          => (j_rb'.read_ptr = j_rb.read_ptr /\ out' = out)]_vars

\* C9 witness: an underrun block, emitted while the ring buffer held some
\* samples but fewer than a block.
C9_Witness ==
  /\ cpc = "trylock"
  /\ out = [ring |-> 0, zero |-> BlockBytes]
  /\ rs > 0
  /\ rs < BlockBytes

RECURSIVE SumSeq(_)
SumSeq(q) == IF q = <<>> THEN 0 ELSE Head(q) + SumSeq(Tail(q))

\* The frame drained last, seen before the report of the same pass.
JustDrained == frame_info.present /\ mpc \in {"drain", "report"}

\* C4: a frame of the transmitted stream that comes back d samples late,
\* 0 < d < sample_rate, yields delta = d and is added to the estimator,
\* however long the session has been running.
C4_EndToEnd ==
  (JustDrained /\ 0 < frame_info.d /\ frame_info.d < j_samplerate)
    => /\ frame_info.delta = frame_info.d
       /\ est.avg_delta = frame_info.before.avg_delta + frame_info.d
       /\ est.avg_count = frame_info.before.avg_count + 1

\* C5: for a frame that starts at or beyond one day's worth of samples,
\* delta is the start position reduced modulo the samples of 24 hours,
\* minus the expected position.
C5_Wraparound ==
  (frame_info.present /\ frame_info.off_start >= DaySamples)
    => frame_info.delta
         = CRem(frame_info.off_start, DaySamples) - frame_info.spos

\* C6: a drained frame updates (sum, count, last_accept_time) exactly when
\* 0 <= delta < sample_rate, and leaves the estimator unchanged otherwise.
C6_AcceptanceWindow ==
  JustDrained
    => IF 0 <= frame_info.delta /\ frame_info.delta < j_samplerate
       THEN est = [avg_delta |-> frame_info.before.avg_delta + frame_info.delta,
                   avg_count |-> frame_info.before.avg_count + 1,
                   last_signal |-> loc.now]
       ELSE est = frame_info.before

\* C7: sum and count are the sum and the number of the deltas accepted since
\* the last reset; a number is printed only when count > 0, and it is the
\* integer nearest to their arithmetic mean; an accepted frame adds its
\* delta, counts one and stamps last_accept_time with now; nothing else
\* changes sum or count but the reset to (0, 0).
C7_RunningMean ==
  /\ [](est.avg_delta = SumSeq(accepted) /\ est.avg_count = Len(accepted))
  /\ []((report.tick /\ report.line.numeric)
          => /\ Len(accepted) > 0
             /\ 2 * (report.line.value * Len(accepted) - SumSeq(accepted))
                  <= Len(accepted)
             /\ 2 * (SumSeq(accepted) - report.line.value * Len(accepted))
                  <= Len(accepted))
  /\ []((report.tick /\ ~report.line.numeric) => Len(accepted) = 0)
  /\ [][Len(accepted') = Len(accepted) + 1
          => /\ est'.avg_delta = est.avg_delta + frame_info'.delta
             /\ est'.avg_count = est.avg_count + 1
             /\ est'.last_signal = loc.now
             /\ accepted' = Append(accepted, frame_info'.delta)]_vars
  /\ [][(est'.avg_delta # est.avg_delta \/ est'.avg_count # est.avg_count)
          => \/ Len(accepted') = Len(accepted) + 1
             \/ (est'.avg_delta = 0 /\ est'.avg_count = 0)]_vars

\* C7 witness: a number is reported that is the mean of two different
\* deltas.
C7_Witness ==
  /\ report.tick
  /\ report.line.numeric
  /\ Len(accepted) = 2
  /\ accepted[1] # accepted[2]
  /\ report.line.value # accepted[1]

\* C8: at a report tick at which now exceeds last_accept_time by more than
\* 3 * sample_rate, sum and count are (0, 0) and the report is "no recent
\* signal".
C8_SilenceReset ==
  (mpc = "check" /\ report.tick
     /\ loc.now - est.last_signal > 3 * j_samplerate)
    => /\ ~report.line.numeric
       /\ est.avg_delta = 0
       /\ est.avg_count = 0

\* C8 witness: the tick resets an estimator that had accepted frames.
C8_Witness ==
  /\ mpc = "check"
  /\ report.tick
  /\ loc.now - est.last_signal > 3 * j_samplerate
  /\ report.count_before > 0
  /\ ~report.line.numeric

\* C8 witness at the start of a session: the tick comes more than three
\* seconds in and no frame has ever been accepted.
C8_WitnessStart ==
  /\ mpc = "check"
  /\ report.tick
  /\ loc.now > 3 * j_samplerate
  /\ est.last_signal = 0
  /\ report.count_before = 0


\* C11: monotonic_cnt is written by the callback only, at line 66, where it
\* grows by n_samples; it never decreases and is never reset.  An invocation
\* returns with the counter n_samples above its value at the start when the
\* output block was read from the ring buffer, and with the counter as it
\* was otherwise (underrun, STARTING or SHUTDOWN).
C11_MonotonicCounter ==
  /\ [][monotonic_cnt' # monotonic_cnt
          => /\ cpc = "cntinc"
             /\ cpc' = "trylock"
             /\ monotonic_cnt' = monotonic_cnt + n_samples]_vars
  /\ [][monotonic_cnt' >= monotonic_cnt]_vars
  /\ [][(cpc # "idle" /\ cpc' = "idle")
          => monotonic_cnt' = cnt_entry
               + (IF out'.ring = BlockBytes THEN n_samples ELSE 0)]_vars
  /\ [](cpc \in {"trylock", "signal", "unlock"}
          => monotonic_cnt = cnt_entry
               + (IF out.ring = BlockBytes THEN n_samples ELSE 0))
  /\ [](cpc \in {"active", "decwrite", "rbcheck", "rbread", "cntinc"}
          => monotonic_cnt = cnt_entry)

\* C11 witness: the second block read in a session has advanced the counter.
C11_Witness ==
  /\ cpc = "trylock"
  /\ out.ring = BlockBytes
  /\ cnt_entry = n_samples
  /\ monotonic_cnt = 2 * n_samples

\* C12: an invocation that finds the state STARTING or SHUTDOWN at line 57
\* zeroes the whole output block and returns; it leaves the decoder's queue,
\* the ring buffer, monotonic_cnt, the lock and the analysis thread as they
\* are, and so does the start of every invocation.
C12_OutsideRunning ==
  /\ [][(cpc = "active" /\ active # RUNNING /\ cpc' # cpc)
          => /\ cpc' = "idle"
             /\ out' = [ring |-> 0, zero |-> BlockBytes]
             /\ UNCHANGED <<queue, frames_decoded, j_rb, rb_consumed,
                            rb_written, monotonic_cnt, lock, mpc, active>>]_vars
  /\ [][(cpc = "idle" /\ cpc' # cpc)
          => /\ cpc' = "active"
             /\ UNCHANGED <<queue, frames_decoded, j_rb, rb_consumed,
                            rb_written, monotonic_cnt, lock, mpc, active>>]_vars

\* C12 witness: a silent block returned in state SHUTDOWN while more than a
\* block of samples waits in the ring buffer; the test of line 64 was last
\* made by an earlier invocation, which read its block.
C12_Witness ==
  /\ cpc = "idle"
  /\ out = [ring |-> 0, zero |-> BlockBytes]
  /\ active = SHUTDOWN
  /\ rs > BlockBytes
  /\ rb_written - rb_consumed > BlockBytes
  /\ cnt_entry = monotonic_cnt

\* C12 witness in state STARTING: a silent block before main_loop has run.
C12_WitnessStarting ==
  /\ cpc = "idle"
  /\ out = [ring |-> 0, zero |-> BlockBytes]
  /\ active = STARTING


\* The positions of main() before line 142 has stored the ring buffer.
BeforeRingbuffer ==
  {"jack_client_open", "set_callbacks", "register_out", "register_in",
   "ringbuffer_create"}

\* C13: when jack_ringbuffer_create returns no buffer, as when the client
\* cannot be opened or a port cannot be registered, the fault is reported on
\* the diagnostic output and the process goes through cleanup to exit with
\* status 1, the client closed; no call is ever handed the missing buffer.
C13_StartupFault ==
  /\ (proc.fault = "rb" /\ proc.pc \notin BeforeRingbuffer)
       => /\ proc.diag
          /\ proc.pc \in {"cleanup", "cleanup_free", "cleanup_end", "exited"}
  /\ (proc.fault \in {"open", "out_port", "in_port", "rb"}
         /\ proc.pc \in {"exited", "crashed"})
       => /\ proc.diag
          /\ proc.status = "1"
          /\ proc.j_client # "open"
          /\ proc.rb # "alloc"
  /\ (proc.pc = "ringbuffer_init" => proc.rb = "alloc")

\* C20: an invocation of process() that has passed the test of line 57 finds
\* the decoder and the ring buffer in existence; whenever the callback can
\* be invoked in state RUNNING both exist; and they are freed only once the
\* client is closed and no invocation can run, on every path to the exit.
C20_ResourceLifetime ==
  /\ (cpc = "decwrite" => proc.decoder = "alloc")
  /\ (cpc \in {"rbcheck", "rbread"} => proc.rb = "alloc")
  /\ (cpc # "off" /\ active = RUNNING)
       => (proc.decoder = "alloc" /\ proc.rb = "alloc")
  /\ (proc.rb = "freed" \/ proc.decoder = "freed")
       => (cpc = "off" /\ proc.j_client = "closed")


\* C14: every write of the encode-ahead loop finds room for its sample, so
\* "ringbuffer overflow" is never printed; the readable space never exceeds
\* the pre-roll threshold plus one frame of samples, which is below the
\* capacity of the buffer; this holds whatever the callback does, also when
\* it stops reading.
C14_NoOverflow ==
  /\ ~overflow
  /\ mpc = "write" => jack_ringbuffer_write_space(j_rb) >= SampleSize
  /\ rb_written - rb_consumed <= (precache + SamplesPerFrame) * SampleSize
  /\ (precache + SamplesPerFrame) * SampleSize <= RbSize - 1

\* C14 witness: the loop has refilled the buffer above the threshold after
\* the callback has read a block and the callback is not running.
C14_Witness ==
  /\ mpc = "qlen"
  /\ cpc = "idle"
  /\ rb_consumed > 0
  /\ rb_written - rb_consumed >= precache * SampleSize
  /\ rb_written >= (precache + SamplesPerFrame) * SampleSize


\* The analysis thread waits on data_ready in state RUNNING and the host
\* still invokes the callback (an invocation is in progress or can start).
WaitingWhileRunning ==
  /\ mpc = "waiting"
  /\ active = RUNNING
  /\ (cpc # "idle" \/ monotonic_cnt + n_samples <= MaxCnt)

\* C15: whenever the analysis thread waits on data_ready in state RUNNING and
\* the callback keeps being invoked, the thread is eventually woken; unless
\* the session is shut down, it then passes the fill loop, which it leaves
\* only with the ring buffer at the pre-roll threshold, and drains every
\* frame that was in the decoder's queue.
C15_NoLostWork ==
  /\ \A k \in 0 .. MaxFrames :
       (WaitingWhileRunning /\ frames_decoded = k)
         ~> \/ (active = SHUTDOWN /\ mpc # "waiting")
            \/ (mpc = "report" /\ frames_decoded - Len(queue) >= k)
  /\ [][(mpc = "fill" /\ mpc' = "qlen")
          => jack_ringbuffer_read_space(j_rb') >= precache * SampleSize]_vars
  /\ [][(mpc' = "qlen" /\ mpc # "qlen") => mpc = "fill"]_vars
  /\ [][(mpc = "waiting" /\ mpc' # mpc) => (mpc' = "woken" /\ lock = "cb")
                                          \/ (mpc' = "woken" /\ sd_pc # "idle")]_vars

\* C15 witness: the callback has signalled the waiting thread while a frame
\* waits in the decoder's queue and the ring buffer is below the threshold,
\* after an earlier trylock of the same session had failed.
C15_Witness ==
  /\ mpc = "woken"
  /\ cpc = "unlock"
  /\ active = RUNNING
  /\ Len(queue) > 0
  /\ jack_ringbuffer_read_space(j_rb) < precache * SampleSize
  /\ monotonic_cnt > 0


\* C16: a reported mean never combines deltas accepted on both sides of a gap
\* of more than 3 * sample_rate counter ticks: when a frame is accepted more
\* than that after the previous accepted one, the estimator holds this
\* frame's delta alone at the report that follows, also when the frame
\* arrives before the report tick that would have seen the silence.
C16_ResetOnGap ==
  (/\ mpc = "check"
   /\ report.tick
   /\ report.line.numeric
   /\ frame_info.present
   /\ est.last_signal = loc.now
   /\ est.avg_count > frame_info.before.avg_count
   /\ loc.now - frame_info.before.last_signal > SilenceSeconds * j_samplerate)
    => /\ est.avg_count = 1
       /\ est.avg_delta = frame_info.delta


\* C17: an invocation in state RUNNING that finds at least n_samples samples
\* readable at line 64, exactly n_samples included, outputs n_samples
\* samples from the ring buffer and advances the counter; it outputs
\* silence only when it found fewer than n_samples samples.
C17_ReadWhenAvailable ==
  /\ (cpc \in {"trylock", "signal", "unlock"} /\ rs >= BlockBytes)
       => /\ out = [ring |-> BlockBytes, zero |-> 0]
          /\ monotonic_cnt = cnt_entry + n_samples
  /\ (cpc \in {"trylock", "signal", "unlock"} /\ out.zero = BlockBytes)
       => rs < BlockBytes
  /\ (cpc \in {"rbread", "cntinc"} => rs >= BlockBytes)


\* Samples of a frame that its bytes before byte b hold.
SamplesBefore(b) == (b * SamplesPerFrame) \div BytesPerFrame

\* C18: outside the writing of a frame the samples ever written are a whole
\* number of frames and the encoder's time is that number; while a frame is
\* written, it is the frame whose timecode is the number of frames written
\* before it, and the bytes and samples already written are its first ones;
\* the thread leaves the fill loop only with at least the pre-roll threshold
\* readable.
C18_WholeFrames ==
  /\ [](rb_written % SampleSize = 0)
  /\ [](mpc \notin {"write", "lock", "set_active"}
          => /\ rb_written \div SampleSize = FrameStart(enc.tc)
             /\ enc.byteCnt \in {0, NextByte(0)}
             /\ enc.i = 0)
  /\ [](mpc = "write"
          => /\ rb_written \div SampleSize
                  = FrameStart(enc.tc) + SamplesBefore(enc.byteCnt) + enc.i
             /\ enc.byteCnt < BytesPerFrame
             /\ enc.i < EncLen(enc.byteCnt))
  /\ [][(mpc = "write" /\ mpc' = "fill")
          => /\ enc'.tc = enc.tc + 1
             /\ rb_written' = FrameStart(enc'.tc) * SampleSize]_vars
  /\ [][(mpc = "fill" /\ mpc' # mpc)
          => \/ mpc' = "write"
             \/ /\ mpc' = "qlen"
                /\ rb_written' - rb_consumed' >= precache * SampleSize
                /\ enc'.tc * SamplesPerFrame * SampleSize = rb_written']_vars

\* C18 witness: the thread leaves the fill loop after it has refilled a
\* buffer from which the callback has read.
C18_Witness ==
  /\ mpc = "qlen"
  /\ rb_consumed > 0
  /\ enc.tc * SamplesPerFrame > precache + SamplesPerFrame
  /\ rb_written = FrameStart(enc.tc) * SampleSize
  /\ rb_written - rb_consumed >= precache * SampleSize


\* C19 as claimed: in every reachable state monotonic_cnt is the number of
\* samples the callback has read from the ring buffer.
C19_CounterAlignment == monotonic_cnt * SampleSize = rb_consumed

\* C19: monotonic_cnt is the number of samples the callback has read from the
\* ring buffer in every state but those between the read of line 65 and the
\* increment of line 66, where it is one block behind; in particular the
\* counter handed to the decoder at line 62 and the block read at line 65
\* start at the same position of the stream, the frame with timecode f
\* starts at position f * (sample_rate / fps) of the stream, and a block of
\* silence moves neither the read cursor nor the counter.
C19_AlignmentAtBlocks ==
  /\ [](cpc # "cntinc" => monotonic_cnt * SampleSize = rb_consumed)
  /\ [](cpc = "cntinc"
          => (monotonic_cnt + n_samples) * SampleSize = rb_consumed)
  /\ [](cpc \in {"decwrite", "rbcheck", "rbread"}
          => cnt_entry * SampleSize = rb_consumed)
  /\ []((mpc = "write" /\ enc.byteCnt = NextByte(0) /\ enc.i = 0)
          => rb_written = enc.tc * (j_samplerate \div fps) * SampleSize)
  /\ [][(cpc # "idle" /\ cpc' = "idle" /\ out'.zero = BlockBytes)
          => /\ rb_consumed' = cnt_entry * SampleSize
             /\ monotonic_cnt' = cnt_entry]_vars

\* C19 witness: a block of silence is returned after two blocks have been
\* read, with the counter and the read cursor at the end of the second.
C19_Witness ==
  /\ cpc = "idle"
  /\ out = [ring |-> 0, zero |-> BlockBytes]
  /\ monotonic_cnt = 2 * n_samples
  /\ rb_consumed = 2 * BlockBytes
  /\ rb_written > rb_consumed

====
